---- MODULE Spec2Model ----
(***************************************************************************)
(* Access resolution engine of the resource sharing system                 *)
(* (src/src/services/accessService.js) over the ElectroDB entities of      *)
(* src/src/models/index.js, together with the management routes that       *)
(* create and delete the entities the engine reads.                        *)
(***************************************************************************)
EXTENDS Integers, Sequences, FiniteSets, TLC

VARIABLES
    users,        \* userIds of the stored User items
    groups,       \* groupIds of the stored Group items
    memberships,  \* stored UserGroup items, as <<userId, groupId>>
    resources,    \* resourceIds of the stored Resource items
    isGlobal,     \* resourceId -> the isGlobal attribute of the Resource item
    grants,       \* stored ResourceSharing items (records)
    last,         \* the last completed call and what it returned
    calls,        \* in-flight shareResource / unshareResource calls (per caller)
    seen          \* what a concurrent reader last read for a resource

store == <<users, groups, memberships, resources, isGlobal, grants>>
vars == <<users, groups, memberships, resources, isGlobal, grants, last, calls, seen>>

----------------------------------------------------------------------------
(* Identifiers.  User ids and group ids are caller-chosen strings of two   *)
(* separate tables, so the same string can name a user and a group.        *)

UserIds == {"a", "b"}
GroupIds == {"a", "g"}
ResourceIds == {"r1", "r2"}
GlobalTarget == "global"
ShareTypes == {"user", "group", "global"}

\* (shareType, targetId) pairs that callers pass: every user and group id
\* with its own type, a global share with and without the 'global' target
\* id, and a shareType outside the enum
ShareRequests ==
    ({"user"} \X UserIds) \cup ({"group"} \X GroupIds)
        \cup ({"global"} \X {GlobalTarget, "a"}) \cup {<<"team", "a">>}
UnshareRequests == {q \in ShareRequests : q[1] \in ShareTypes}

\* the requests whose key is the key of the item a share writes
CreateRuleKeyOk(request) ==
    /\ request[1] \in ShareTypes
    /\ request[1] = "global" => request[2] = GlobalTarget

\* sharedBy / permissions pairs a caller passes; permissions defaults to ['read']
GrantInputs ==
    { [sharedBy |-> "a", permissions |-> <<"read">>],
      [sharedBy |-> "b", permissions |-> <<"read", "write">>] }

\* the memberships the management calls add and remove
MemberPairs == {<<"a", "g">>, <<"b", "a">>, <<"b", "g">>}

\* bounds of the model
MaxGrants == 2
MaxMemberships == 2

\* String order of the ids and share types, as DynamoDB sorts key strings.
IdOrder == <<"a", "b", "g", "global">>
ShareTypeOrder == <<"global", "group", "user">>
ResourceOrder == <<"r1", "r2">>

PosIn(seq, x) == CHOOSE i \in 1..Len(seq) : seq[i] = x

RECURSIVE SeqOfSet(_, _)
\* the members of S in the order of seq
SeqOfSet(seq, S) ==
    IF seq = <<>> THEN <<>>
    ELSE IF Head(seq) \in S THEN <<Head(seq)>> \o SeqOfSet(Tail(seq), S)
    ELSE SeqOfSet(Tail(seq), S)

RECURSIVE SortBy(_, _)
\* the members of S as a sequence ascending by the injective key Key(_)
SortBy(Key(_), S) ==
    IF S = {} THEN <<>>
    ELSE LET m == CHOOSE x \in S : \A y \in S : Key(x) <= Key(y)
         IN  <<m>> \o SortBy(Key, S \ {m})

----------------------------------------------------------------------------
(* Store reads.  A query returns the items of one partition in ascending   *)
(* order of the index's sort key; timestamps (createdAt, updatedAt,        *)
(* sharedAt) are not modelled.                                             *)

\* sort key of ResourceSharing.indexes.primary: shareType, then targetId
PrimarySortKey(rule) ==
    PosIn(ShareTypeOrder, rule.shareType) * (Len(IdOrder) + 1) + PosIn(IdOrder, rule.targetId)

\* ResourceSharing.query.primary({ resourceId })
QueryPrimary(resourceId) ==
    SortBy(PrimarySortKey, {rule \in grants : rule.resourceId = resourceId})

\* sort key of ResourceSharing.indexes.byTarget: resourceId.  Items with the
\* same targetId and resourceId differ in shareType only; they are taken in
\* the order of the table's primary key.
ByTargetSortKey(rule) ==
    PosIn(ResourceOrder, rule.resourceId) * (Len(ShareTypeOrder) + 1)
        + PosIn(ShareTypeOrder, rule.shareType)

\* a byTarget query that returns the group-type items of the partition only
QueryByTargetGroupsOnly(targetId) ==
    SortBy(ByTargetSortKey,
           {rule \in grants : rule.targetId = targetId /\ rule.shareType = "group"})

\* ResourceSharing.query.byTarget({ targetId }): the partition is the targetId
\* alone, whatever the shareType of the item
QueryByTarget(targetId) ==
    SortBy(ByTargetSortKey, {rule \in grants : rule.targetId = targetId})

\* UserGroup.query.byGroup({ groupId }): userIds of the group's memberships
QueryByGroup(groupId) ==
    SeqOfSet(IdOrder, {m[1] : m \in {x \in memberships : x[2] = groupId}})

\* UserGroup.query.primary({ userId }): groupIds of the user's memberships
QueryGroupsOfUser(userId) ==
    SeqOfSet(IdOrder, {m[2] : m \in {x \in memberships : x[1] = userId}})

\* User.scan
ScanUsers == SeqOfSet(IdOrder, users)

\* Resource.scan
ScanResources == SeqOfSet(ResourceOrder, resources)

\* Resource.query.globalResources({ isGlobal: true })
QueryGlobalResources == SeqOfSet(ResourceOrder, {r \in resources : isGlobal[r]})

----------------------------------------------------------------------------
(* getResourceAccessList                                                   *)

Failure(message) == [ok |-> FALSE, error |-> message]

\* accessService.js 22-29: every scanned user is added to the Set and gets one
\* 'global' entry
RECURSIVE ProcessAllUsers(_, _)
ProcessAllUsers(allUsers, acc) ==
    IF allUsers = <<>> THEN acc
    ELSE ProcessAllUsers(Tail(allUsers),
             [accessList |-> acc.accessList \cup {Head(allUsers)},
              accessDetails |-> Append(acc.accessDetails,
                  [userId |-> Head(allUsers), accessType |-> "global"])])

\* accessService.js 45-58: a user rule adds its target to the Set and pushes
\* an entry whenever the target user exists
ProcessUserRule(rule, acc) ==
    IF rule.targetId \in users
    THEN [accessList |-> acc.accessList \cup {rule.targetId},
          accessDetails |-> Append(acc.accessDetails,
              [userId |-> rule.targetId, accessType |-> "direct",
               sharedBy |-> rule.sharedBy, permissions |-> rule.permissions])]
    ELSE acc

\* a member of a group rule whose entry replaces the entry the member
\* already has
ProcessMemberLastWins(rule, userId, acc) ==
    IF userId \notin users THEN acc
    ELSE LET entry == [userId |-> userId, accessType |-> "group",
                       groupId |-> rule.targetId,
                       sharedBy |-> rule.sharedBy, permissions |-> rule.permissions]
         IN  IF userId \in acc.accessList
             THEN [accessList |-> acc.accessList,
                   accessDetails |->
                       [i \in DOMAIN acc.accessDetails |->
                           IF acc.accessDetails[i].userId = userId THEN entry
                           ELSE acc.accessDetails[i]]]
             ELSE [accessList |-> acc.accessList \cup {userId},
                   accessDetails |-> Append(acc.accessDetails, entry)]

\* a member of a group rule, listed without the lookup of the User item
ProcessMemberNoUserCheck(rule, userId, acc) ==
    IF userId \notin acc.accessList
    THEN [accessList |-> acc.accessList \cup {userId},
          accessDetails |-> Append(acc.accessDetails,
              [userId |-> userId, accessType |-> "group", groupId |-> rule.targetId,
               sharedBy |-> rule.sharedBy, permissions |-> rule.permissions])]
    ELSE acc

\* accessService.js 66-80: one member of a group rule
ProcessMember(rule, userId, acc) ==
    IF userId \notin acc.accessList /\ userId \in users
    THEN [accessList |-> acc.accessList \cup {userId},
          accessDetails |-> Append(acc.accessDetails,
              [userId |-> userId, accessType |-> "group", groupId |-> rule.targetId,
               sharedBy |-> rule.sharedBy, permissions |-> rule.permissions])]
    ELSE acc

RECURSIVE ProcessMembers(_, _, _)
\* accessService.js 65-81: the loop over groupMembers.data
ProcessMembers(rule, members, acc) ==
    IF members = <<>> THEN acc
    ELSE ProcessMembers(rule, Tail(members), ProcessMember(rule, Head(members), acc))

\* accessService.js 45-82: one sharing rule; a 'global' rule is neither branch
ProcessRule(rule, acc) ==
    IF rule.shareType = "user" THEN ProcessUserRule(rule, acc)
    ELSE IF rule.shareType = "group"
         THEN ProcessMembers(rule, QueryByGroup(rule.targetId), acc)
         ELSE acc

RECURSIVE ProcessRules(_, _)
\* accessService.js 44-83: the loop over sharingRules.data
ProcessRules(rules, acc) ==
    IF rules = <<>> THEN acc
    ELSE ProcessRules(Tail(rules), ProcessRule(Head(rules), acc))

EmptyAccess == [accessList |-> {}, accessDetails |-> <<>>]

\* the resolver without the isGlobal branch
getResourceAccessListNoGlobal(resourceId) ==
    IF resourceId \notin resources THEN Failure("Resource not found")
    ELSE LET acc == ProcessRules(QueryPrimary(resourceId), EmptyAccess)
         IN  [ok |-> TRUE, resourceId |-> resourceId, accessType |-> "specific",
              totalUsers |-> Cardinality(acc.accessList), users |-> acc.accessDetails]

\* the resolver counting the pushed entries instead of the Set
getResourceAccessListCountEntries(resourceId) ==
    IF resourceId \notin resources THEN Failure("Resource not found")
    ELSE IF isGlobal[resourceId]
    THEN LET acc == ProcessAllUsers(ScanUsers, EmptyAccess)
         IN  [ok |-> TRUE, resourceId |-> resourceId, accessType |-> "global",
              totalUsers |-> Len(acc.accessDetails), users |-> acc.accessDetails]
    ELSE LET acc == ProcessRules(QueryPrimary(resourceId), EmptyAccess)
         IN  [ok |-> TRUE, resourceId |-> resourceId, accessType |-> "specific",
              totalUsers |-> Len(acc.accessDetails), users |-> acc.accessDetails]

\* accessService.js 8-94 (the error is the message thrown inside the try block)
getResourceAccessList(resourceId) ==
    IF resourceId \notin resources THEN Failure("Resource not found")
    ELSE IF isGlobal[resourceId]
    THEN LET acc == ProcessAllUsers(ScanUsers, EmptyAccess)
         IN  [ok |-> TRUE, resourceId |-> resourceId, accessType |-> "global",
              totalUsers |-> Cardinality(acc.accessList), users |-> acc.accessDetails]
    ELSE LET acc == ProcessRules(QueryPrimary(resourceId), EmptyAccess)
         IN  [ok |-> TRUE, resourceId |-> resourceId, accessType |-> "specific",
              totalUsers |-> Cardinality(acc.accessList), users |-> acc.accessDetails]

----------------------------------------------------------------------------
(* getUserResources                                                        *)

RECURSIVE GroupShares(_)
\* accessService.js 124-130: the byTarget results of the user's groups, appended
GroupShares(groupIds) ==
    IF groupIds = <<>> THEN <<>>
    ELSE QueryByTarget(Head(groupIds)) \o GroupShares(Tail(groupIds))

\* accessService.js 139-151: one share of directShares.data
ProcessDirectShare(share, acc) ==
    IF share.resourceId \notin acc.resourceIds /\ share.resourceId \in resources
    THEN [resourceIds |-> acc.resourceIds \cup {share.resourceId},
          resources |-> Append(acc.resources,
              [resource |-> share.resourceId, accessType |-> "direct",
               sharedBy |-> share.sharedBy, permissions |-> share.permissions])]
    ELSE acc

\* accessService.js 156-169: one share of groupShares
ProcessGroupShare(share, acc) ==
    IF share.resourceId \notin acc.resourceIds /\ share.resourceId \in resources
    THEN [resourceIds |-> acc.resourceIds \cup {share.resourceId},
          resources |-> Append(acc.resources,
              [resource |-> share.resourceId, accessType |-> "group",
               groupId |-> share.targetId,
               sharedBy |-> share.sharedBy, permissions |-> share.permissions])]
    ELSE acc

\* accessService.js 174-181: one resource of globalResources.data
ProcessGlobalResource(resourceId, acc) ==
    IF resourceId \notin acc.resourceIds
    THEN [resourceIds |-> acc.resourceIds \cup {resourceId},
          resources |-> Append(acc.resources,
              [resource |-> resourceId, accessType |-> "global",
               permissions |-> <<"read">>])]
    ELSE acc

RECURSIVE ProcessDirectShares(_, _)
\* accessService.js 138-152
ProcessDirectShares(shares, acc) ==
    IF shares = <<>> THEN acc
    ELSE ProcessDirectShares(Tail(shares), ProcessDirectShare(Head(shares), acc))

RECURSIVE ProcessGroupShares(_, _)
\* accessService.js 155-170
ProcessGroupShares(shares, acc) ==
    IF shares = <<>> THEN acc
    ELSE ProcessGroupShares(Tail(shares), ProcessGroupShare(Head(shares), acc))

RECURSIVE ProcessGlobalResources(_, _)
\* accessService.js 173-182
ProcessGlobalResources(globalResources, acc) ==
    IF globalResources = <<>> THEN acc
    ELSE ProcessGlobalResources(Tail(globalResources),
                                ProcessGlobalResource(Head(globalResources), acc))

\* the reverse resolver without the check that the user exists
getUserResourcesAnyUser(userId) ==
    LET acc == ProcessGlobalResources(QueryGlobalResources,
                   ProcessGroupShares(GroupShares(QueryGroupsOfUser(userId)),
                       ProcessDirectShares(QueryByTarget(userId),
                           [resourceIds |-> {}, resources |-> <<>>])))
    IN  [ok |-> TRUE, userId |-> userId,
         totalResources |-> Cardinality(acc.resourceIds),
         resources |-> acc.resources]

\* accessService.js 100-192
getUserResources(userId) ==
    IF userId \notin users THEN Failure("User not found")
    ELSE LET groupIds == QueryGroupsOfUser(userId)
             directShares == QueryByTarget(userId)
             groupShares == GroupShares(groupIds)
             globalResources == QueryGlobalResources
             acc == ProcessGlobalResources(globalResources,
                        ProcessGroupShares(groupShares,
                            ProcessDirectShares(directShares,
                                [resourceIds |-> {}, resources |-> <<>>])))
         IN  [ok |-> TRUE, userId |-> userId,
              totalResources |-> Cardinality(acc.resourceIds),
              resources |-> acc.resources]

----------------------------------------------------------------------------
(* getResourcesWithUserCount and getUsersWithResourceCount                 *)

RECURSIVE ResourceRowsByEntries(_)
\* rows whose userCount is the number of entries of the access list
ResourceRowsByEntries(allResources) ==
    IF allResources = <<>> THEN <<>>
    ELSE LET accessList == getResourceAccessList(Head(allResources))
         IN  <<[resource |-> Head(allResources),
                userCount |-> Len(accessList.users),
                accessType |-> accessList.accessType]>>
                 \o ResourceRowsByEntries(Tail(allResources))

RECURSIVE ResourceRows(_)
\* accessService.js 202-209: one row per scanned resource
ResourceRows(allResources) ==
    IF allResources = <<>> THEN <<>>
    ELSE LET accessList == getResourceAccessList(Head(allResources))
         IN  <<[resource |-> Head(allResources),
                userCount |-> accessList.totalUsers,
                accessType |-> accessList.accessType]>>
                 \o ResourceRows(Tail(allResources))

\* accessService.js 197-215: a resolver call that throws ends the loop and
\* the whole call
getResourcesWithUserCount ==
    LET allResources == ScanResources
    IN  IF \E i \in DOMAIN allResources : ~getResourceAccessList(allResources[i]).ok
        THEN Failure("Failed to get resources with user count")
        ELSE [ok |-> TRUE, rows |-> ResourceRows(allResources)]

RECURSIVE UserRows(_)
\* accessService.js 225-231: one row per scanned user
UserRows(allUsers) ==
    IF allUsers = <<>> THEN <<>>
    ELSE LET userResources == getUserResources(Head(allUsers))
         IN  <<[user |-> Head(allUsers),
                resourceCount |-> userResources.totalResources]>>
                 \o UserRows(Tail(allUsers))

\* accessService.js 220-237
getUsersWithResourceCount ==
    LET allUsers == ScanUsers
    IN  IF \E i \in DOMAIN allUsers : ~getUserResources(allUsers[i]).ok
        THEN Failure("Failed to get users with resource count")
        ELSE [ok |-> TRUE, rows |-> UserRows(allUsers)]

----------------------------------------------------------------------------
(* shareResource and unshareResource.  A store call can fail (the store is *)
(* remote); fault names the store call of the handler that fails, or is    *)
(* "none".                                                                 *)

GrantKey(rule) == <<rule.resourceId, rule.shareType, rule.targetId>>

HasGrant(resourceId, shareType, targetId) ==
    \E rule \in grants : GrantKey(rule) = <<resourceId, shareType, targetId>>

\* the existence checks without the check of the target user
ShareValidationNoUser(resourceId, shareType, targetId) ==
    IF resourceId \notin resources THEN "Resource not found"
    ELSE IF shareType = "group" /\ targetId \notin groups THEN "Target group not found"
    ELSE "ok"

\* accessService.js 244-260: the existence checks; "ok" when none throws
ShareValidation(resourceId, shareType, targetId) ==
    IF resourceId \notin resources THEN "Resource not found"
    ELSE IF shareType = "user" /\ targetId \notin users THEN "Target user not found"
    ELSE IF shareType = "group" /\ targetId \notin groups THEN "Target group not found"
    ELSE "ok"

\* the target id as the caller passed it, for every shareType
ShareTargetAsGiven(shareType, targetId) == targetId

\* accessService.js 261-262: a global share always targets 'global'
ShareTarget(shareType, targetId) ==
    IF shareType = "global" THEN GlobalTarget ELSE targetId

\* accessService.js 264-266: Resource.update(...).set({ isGlobal: true }) runs
\* for a global share only, before the sharing rule is created
ShareFlag(resourceId, shareType, fault) ==
    IF shareType = "global" /\ fault # "Resource.update"
    THEN [isGlobal EXCEPT ![resourceId] = TRUE]
    ELSE isGlobal

\* the message of ElectroDB's validation of an enum attribute
\* (models/index.js 240-243) for a value outside the enum
InvalidShareTypeMessage ==
    "Invalid value type at entity path: shareType. Value not found in set of acceptable values: user, group, global"

\* a put that is not conditional on the key: it succeeds on an existing key
CreateRuleUpsert(rule, fault) ==
    IF rule.shareType \notin ShareTypes THEN Failure(InvalidShareTypeMessage)
    ELSE IF fault = "ResourceSharing.create" THEN Failure("Store unavailable")
    ELSE [ok |-> TRUE, data |-> rule]

\* accessService.js 270-276: ResourceSharing.create validates the shareType
\* against the attribute's enum (models/index.js 240-243) and is a put that is
\* conditional on the key not existing yet
CreateRule(rule, fault) ==
    IF rule.shareType \notin ShareTypes THEN Failure(InvalidShareTypeMessage)
    ELSE IF fault = "ResourceSharing.create" THEN Failure("Store unavailable")
    ELSE IF HasGrant(rule.resourceId, rule.shareType, rule.targetId)
         THEN Failure("Sharing rule already exists")
    ELSE [ok |-> TRUE, data |-> rule]

\* accessService.js 242-282: what the call returns and what it leaves in the store
ShareOutcome(resourceId, shareType, targetId, input, fault) ==
    LET check == ShareValidation(resourceId, shareType, targetId)
        rule == [resourceId |-> resourceId, shareType |-> shareType,
                 targetId |-> ShareTarget(shareType, targetId),
                 sharedBy |-> input.sharedBy, permissions |-> input.permissions]
        created == CreateRule(rule, fault)
    IN  IF check # "ok"
        THEN [result |-> Failure(check), isGlobal |-> isGlobal, grants |-> grants]
        ELSE IF shareType = "global" /\ fault = "Resource.update"
        THEN [result |-> Failure("Store unavailable"), isGlobal |-> isGlobal,
              grants |-> grants]
        ELSE [result |-> created,
              isGlobal |-> ShareFlag(resourceId, shareType, fault),
              grants |-> IF created.ok THEN grants \cup {rule} ELSE grants]

\* the route maps a message that contains 'not found' to 404 (users.js
\* 678-682) and every other message to 500; these are the messages of the
\* model that contain it
IsNotFound(result) ==
    /\ ~result.ok
    /\ result.error \in {"Resource not found", "Target user not found",
                         "Target group not found", "User not found",
                         InvalidShareTypeMessage}

shareResource(resourceId, shareType, targetId, input, fault) ==
    LET out == ShareOutcome(resourceId, shareType, targetId, input, fault)
    IN  /\ Cardinality(out.grants) <= MaxGrants
        /\ isGlobal' = out.isGlobal
        /\ grants' = out.grants
        /\ last' = [op |-> "shareResource", resourceId |-> resourceId,
                    shareType |-> shareType, targetId |-> targetId,
                    sharedBy |-> input.sharedBy, result |-> out.result,
                    existed |-> HasGrant(resourceId, shareType,
                                         ShareTarget(shareType, targetId)),
                    before |-> getResourceAccessList(resourceId)]
        /\ UNCHANGED <<users, groups, memberships, resources, calls, seen>>

\* a delete that matches the resourceId and targetId of the key only
DeleteRuleAnyType(resourceId, shareType, targetId) ==
    {rule \in grants : rule.resourceId # resourceId \/ rule.targetId # targetId}

\* accessService.js 289-293: ResourceSharing.delete removes the item with
\* exactly this key, and is no error when there is none
DeleteRule(resourceId, shareType, targetId) ==
    {rule \in grants : GrantKey(rule) # <<resourceId, shareType, targetId>>}

\* accessService.js 287-306.  Resource.update is DynamoDB's UpdateItem without
\* an existence condition: it writes the item whether or not it exists.
UnshareOutcome(resourceId, shareType, targetId, fault) ==
    IF fault = "ResourceSharing.delete"
    THEN [result |-> Failure("Store unavailable"), resources |-> resources,
          isGlobal |-> isGlobal, grants |-> grants]
    ELSE IF shareType # "global"
    THEN [result |-> [ok |-> TRUE], resources |-> resources,
          isGlobal |-> isGlobal,
          grants |-> DeleteRule(resourceId, shareType, targetId)]
    ELSE IF fault = "Resource.update"
    THEN [result |-> Failure("Store unavailable"), resources |-> resources,
          isGlobal |-> isGlobal,
          grants |-> DeleteRule(resourceId, shareType, targetId)]
    ELSE [result |-> [ok |-> TRUE], resources |-> resources \cup {resourceId},
          isGlobal |-> [isGlobal EXCEPT ![resourceId] = FALSE],
          grants |-> DeleteRule(resourceId, shareType, targetId)]

unshareResource(resourceId, shareType, targetId, fault) ==
    LET out == UnshareOutcome(resourceId, shareType, targetId, fault)
    IN  /\ resources' = out.resources
        /\ isGlobal' = out.isGlobal
        /\ grants' = out.grants
        /\ last' = [op |-> "unshareResource", resourceId |-> resourceId,
                    shareType |-> shareType, targetId |-> targetId,
                    result |-> out.result,
                    after |-> IF /\ last.op = "shareResource"
                                 /\ last.resourceId = resourceId
                                 /\ last.shareType = shareType
                                 /\ last.targetId = targetId
                              THEN [shared |-> TRUE, existed |-> last.existed,
                                    result |-> last.result, before |-> last.before]
                              ELSE [shared |-> FALSE]]
        /\ UNCHANGED <<users, groups, memberships, calls, seen>>

----------------------------------------------------------------------------
(* The route handlers: the resolvers behind GET, and the management routes *)
(* that create and delete users, groups and memberships.  Spec below runs  *)
(* the user routes; the group and membership routes produce the stores     *)
(* that InitResolve enumerates.                                            *)

\* the route with a resolver that rewrites isGlobal of the resource from its
\* global grant while it reads
GetAccessListRepairing(resourceId) ==
    /\ last' = [op |-> "getResourceAccessList", resourceId |-> resourceId,
                result |-> getResourceAccessList(resourceId)]
    /\ isGlobal' = IF resourceId \in resources
                   THEN [isGlobal EXCEPT
                            ![resourceId] = HasGrant(resourceId, "global", GlobalTarget)]
                   ELSE isGlobal
    /\ UNCHANGED <<users, groups, memberships, resources, grants, calls, seen>>

\* users.js 466-478: GET /resource/:id/access-list
GetAccessList(resourceId) ==
    /\ last' = [op |-> "getResourceAccessList", resourceId |-> resourceId,
                result |-> getResourceAccessList(resourceId)]
    /\ UNCHANGED <<store, calls, seen>>

\* users.js 530-543: GET /resource/user/:id/resources
GetUserResources(userId) ==
    /\ last' = [op |-> "getUserResources", userId |-> userId,
                result |-> getUserResources(userId)]
    /\ UNCHANGED <<store, calls, seen>>

Managed == [op |-> "manage"]

\* users.js 78-98: POST /users; User.create rejects an existing userId
CreateUser(userId) ==
    /\ userId \notin users
    /\ users' = users \cup {userId}
    /\ last' = Managed
    /\ UNCHANGED <<groups, memberships, resources, isGlobal, grants, calls, seen>>

\* users.js 207-220: DELETE /users/:id removes the User item only
DeleteUser(userId) ==
    /\ userId \in users
    /\ users' = users \ {userId}
    /\ last' = Managed
    /\ UNCHANGED <<groups, memberships, resources, isGlobal, grants, calls, seen>>

\* groups.js 90-110: POST /groups
CreateGroup(groupId) ==
    /\ groupId \notin groups
    /\ groups' = groups \cup {groupId}
    /\ last' = Managed
    /\ UNCHANGED <<users, memberships, resources, isGlobal, grants, calls, seen>>

\* groups.js 219-232: DELETE /groups/:id removes the Group item only
DeleteGroup(groupId) ==
    /\ groupId \in groups
    /\ groups' = groups \ {groupId}
    /\ last' = Managed
    /\ UNCHANGED <<users, memberships, resources, isGlobal, grants, calls, seen>>

\* users.js 294-318: POST /users/:id/groups checks the user, not the group
AddUserToGroup(userId, groupId) ==
    /\ userId \in users
    /\ <<userId, groupId>> \notin memberships
    /\ Cardinality(memberships) < MaxMemberships
    /\ memberships' = memberships \cup {<<userId, groupId>>}
    /\ last' = Managed
    /\ UNCHANGED <<users, groups, resources, isGlobal, grants, calls, seen>>

\* users.js 347-360: DELETE /users/:userId/groups/:groupId
RemoveUserFromGroup(userId, groupId) ==
    /\ <<userId, groupId>> \in memberships
    /\ memberships' = memberships \ {<<userId, groupId>>}
    /\ last' = Managed
    /\ UNCHANGED <<users, groups, resources, isGlobal, grants, calls, seen>>

----------------------------------------------------------------------------------------------------------------------------------------
(* The grant mutator: calls run one at a time, each to completion, over a  *)
(* store whose resources were created non-global and hold no grant yet,    *)
(* while user b comes and goes; group g is never created.                  *)

Idle == [op |-> "none"]

Init ==
    /\ users = {"a", "b"}
    /\ groups = {"a"}
    /\ memberships = {<<"b", "a">>, <<"a", "g">>}
    /\ resources \in {{"r1"}, {"r1", "r2"}}
    /\ isGlobal = [r \in ResourceIds |-> FALSE]
    /\ grants = {}
    /\ last = Idle
    /\ calls = <<>>
    /\ seen = Idle

Share ==
    \E resourceId \in ResourceIds, request \in ShareRequests, input \in GrantInputs,
       fault \in {"none", "ResourceSharing.create"} :
        shareResource(resourceId, request[1], request[2], input, fault)

Unshare ==
    \E resourceId \in ResourceIds, request \in UnshareRequests :
        unshareResource(resourceId, request[1], request[2], "none")

Resolve ==
    \/ \E resourceId \in ResourceIds : GetAccessList(resourceId)
    \/ \E userId \in UserIds : GetUserResources(userId)

Manage ==
    \/ CreateUser("b")
    \/ DeleteUser("b")

Next == Share \/ Unshare \/ Resolve \/ Manage

Spec == Init /\ [][Next]_vars

----------------------------------------------------------------------------
(* The resolvers applied to every store within the bounds.  Each of these  *)
(* stores is one the management routes and the grant mutator leave behind: *)
(* users, groups and resources are deleted without their memberships and   *)
(* grants, and isGlobal is written apart from the global grant.            *)

RECURSIVE SubsetsUpTo(_, _)
\* the subsets of S with at most n elements
SubsetsUpTo(S, n) ==
    IF n = 0 THEN {{}}
    ELSE LET smaller == SubsetsUpTo(S, n - 1)
         IN  smaller \cup {p \cup {x} : p \in smaller, x \in S}

\* the items ResourceSharing.create can have written: one per key
\* (models/index.js 266-276), a global one always with the 'global' target
StorableRules ==
    { [resourceId |-> resourceId, shareType |-> request[1], targetId |-> request[2],
       sharedBy |-> input.sharedBy, permissions |-> input.permissions] :
         resourceId \in ResourceIds,
         request \in {q \in ShareRequests : CreateRuleKeyOk(q)},
         input \in GrantInputs }

GrantStores ==
    { G \in SubsetsUpTo(StorableRules, MaxGrants) :
        \A x, y \in G : GrantKey(x) = GrantKey(y) => x = y }

InitResolve ==
    /\ users \in SUBSET UserIds
    /\ groups \in {{"a"}, {"a", "g"}}
    /\ memberships \in SubsetsUpTo(MemberPairs, MaxMemberships)
    /\ resources \in {{"r1"}, {"r1", "r2"}}
    /\ isGlobal \in {f \in [ResourceIds -> BOOLEAN] :
                       \A r \in ResourceIds : f[r] => r \in resources}
    /\ grants \in GrantStores
    /\ last = Idle
    /\ calls = <<>>
    /\ seen = Idle

SpecResolve == InitResolve /\ [][Resolve]_vars

----------------------------------------------------------------------------
(* The management routes together with the grant mutator, on one resource  *)
(* and one group: users, the group, its memberships and the resource are   *)
(* created and deleted while grants on the resource come and go.           *)

\* resources-management.js 90-113: POST /resources; Resource.create rejects an
\* existing resourceId, and isGlobal is the body's value or false
CreateResource(resourceId, flag) ==
    /\ resourceId \notin resources
    /\ resources' = resources \cup {resourceId}
    /\ isGlobal' = [isGlobal EXCEPT ![resourceId] = flag]
    /\ last' = Managed
    /\ UNCHANGED <<users, groups, memberships, grants, calls, seen>>

\* resources-management.js 224-237: DELETE /resources/:id removes the
\* Resource item only (and with it the item's isGlobal attribute)
DeleteResource(resourceId) ==
    /\ resourceId \in resources
    /\ resources' = resources \ {resourceId}
    /\ isGlobal' = [isGlobal EXCEPT ![resourceId] = FALSE]
    /\ last' = Managed
    /\ UNCHANGED <<users, groups, memberships, grants, calls, seen>>

\* the bodies of PUT /resources/:id: with an isGlobal value, or without one
UpdateBodies ==
    {[isGlobal |-> TRUE], [isGlobal |-> FALSE], [name |-> "renamed"]}

\* resources-management.js 199-222: PUT /resources/:id.  Resource.update
\* writes the item whether or not it exists, and sets isGlobal when the body
\* has one
UpdateResource(resourceId, body) ==
    /\ resources' = resources \cup {resourceId}
    /\ isGlobal' = IF "isGlobal" \in DOMAIN body
                   THEN [isGlobal EXCEPT ![resourceId] = body.isGlobal]
                   ELSE isGlobal
    /\ last' = Managed
    /\ UNCHANGED <<users, groups, memberships, grants, calls, seen>>

\* the requests made on the managed resource
ManagedRequests ==
    {<<"user", "a">>, <<"user", "b">>, <<"group", "g">>, <<"global", GlobalTarget>>}

ManagedInput == [sharedBy |-> "a", permissions |-> <<"read">>]

InitManage ==
    /\ users = {"a", "b"}
    /\ groups = {"g"}
    /\ memberships = {}
    /\ resources = {"r1"}
    /\ isGlobal = [r \in ResourceIds |-> FALSE]
    /\ grants = {}
    /\ last = Idle
    /\ calls = <<>>
    /\ seen = Idle

ManageUsers ==
    \E userId \in UserIds : CreateUser(userId) \/ DeleteUser(userId)

ManageGroups ==
    CreateGroup("g") \/ DeleteGroup("g")

ManageMembers ==
    \E userId \in UserIds :
        AddUserToGroup(userId, "g") \/ RemoveUserFromGroup(userId, "g")

ManageResources ==
    \/ \E flag \in BOOLEAN : CreateResource("r1", flag)
    \/ \E body \in UpdateBodies : UpdateResource("r1", body)
    \/ DeleteResource("r1")

ShareManaged ==
    \E request \in ManagedRequests :
        shareResource("r1", request[1], request[2], ManagedInput, "none")

UnshareManaged ==
    \E request \in ManagedRequests :
        unshareResource("r1", request[1], request[2], "none")

NextManage ==
    \/ ManageUsers
    \/ ManageGroups
    \/ ManageMembers
    \/ ManageResources
    \/ ShareManaged
    \/ UnshareManaged
    \/ Resolve

SpecManage == InitManage /\ [][NextManage]_vars

----------------------------------------------------------------------------
(* The reporting routes applied to every store within the bounds.  The     *)
(* store does not change while a call runs.                                *)

\* users.js 571-578: GET /resource/resources/with-user-count
GetResourcesWithUserCount ==
    /\ last' = [op |-> "getResourcesWithUserCount",
                result |-> getResourcesWithUserCount]
    /\ UNCHANGED <<store, calls, seen>>

\* users.js 603-610: GET /resource/users/with-resource-count
GetUsersWithResourceCount ==
    /\ last' = [op |-> "getUsersWithResourceCount",
                result |-> getUsersWithResourceCount]
    /\ UNCHANGED <<store, calls, seen>>

Report ==
    \/ GetResourcesWithUserCount
    \/ GetUsersWithResourceCount

SpecReport == InitResolve /\ [][Report]_vars

\* the four read calls together
Read == Resolve \/ Report

SpecRead == InitResolve /\ [][Read]_vars

----------------------------------------------------------------------------
(* Concurrent calls.  The handlers are async functions: each await of a    *)
(* store call is a point where other calls run, so a call is a sequence of *)
(* steps, one per store call, and the steps of different callers           *)
(* interleave.  pc names the store call a suspended call makes next.       *)

Callers == {"c1", "c2"}

NoCall == [op |-> "none"]

Completed(call, result) ==
    [op |-> call.op, resourceId |-> call.resourceId, shareType |-> call.shareType,
     targetId |-> call.targetId, result |-> result]

\* accessService.js 250-261: the store call that follows Resource.get
AfterResourceGet(shareType) ==
    IF shareType = "user" THEN "User.get"
    ELSE IF shareType = "group" THEN "Group.get"
    ELSE IF shareType = "global" THEN "Resource.update"
    ELSE "ResourceSharing.create"

\* accessService.js 242-248: the call starts and awaits Resource.get
BeginShare(c, resourceId, shareType, targetId, input) ==
    LET call == [op |-> "shareResource", resourceId |-> resourceId,
                 shareType |-> shareType, targetId |-> targetId, input |-> input,
                 pc |-> AfterResourceGet(shareType)]
    IN  /\ calls[c] = NoCall
        /\ IF resourceId \in resources
           THEN calls' = [calls EXCEPT ![c] = call] /\ UNCHANGED last
           ELSE last' = Completed(call, Failure("Resource not found")) /\ UNCHANGED calls
        /\ UNCHANGED <<store, seen>>

\* accessService.js 251-260: await User.get / Group.get of the target
StepShareTarget(c) ==
    LET call == calls[c]
        check == ShareValidation(call.resourceId, call.shareType, call.targetId)
    IN  /\ call.op = "shareResource"
        /\ call.pc \in {"User.get", "Group.get"}
        /\ IF check \in {"Target user not found", "Target group not found"}
           THEN /\ calls' = [calls EXCEPT ![c] = NoCall]
                /\ last' = Completed(call, Failure(check))
           ELSE /\ calls' = [calls EXCEPT ![c].pc = "ResourceSharing.create"]
                /\ UNCHANGED last
        /\ UNCHANGED <<store, seen>>

\* accessService.js 261-267: targetId = 'global'; await Resource.update, which
\* writes the item whether or not it still exists
StepShareUpdate(c) ==
    LET call == calls[c]
    IN  /\ call.op = "shareResource"
        /\ call.pc = "Resource.update"
        /\ resources' = resources \cup {call.resourceId}
        /\ isGlobal' = ShareFlag(call.resourceId, call.shareType, "none")
        /\ calls' = [calls EXCEPT ![c].pc = "ResourceSharing.create"]
        /\ UNCHANGED <<users, groups, memberships, grants, last, seen>>

\* accessService.js 269-281: await ResourceSharing.create, then return or throw
StepShareCreate(c) ==
    LET call == calls[c]
        rule == [resourceId |-> call.resourceId, shareType |-> call.shareType,
                 targetId |-> ShareTarget(call.shareType, call.targetId),
                 sharedBy |-> call.input.sharedBy,
                 permissions |-> call.input.permissions]
        created == CreateRule(rule, "none")
    IN  /\ call.op = "shareResource"
        /\ call.pc = "ResourceSharing.create"
        /\ grants' = IF created.ok THEN grants \cup {rule} ELSE grants
        /\ Cardinality(grants') <= MaxGrants
        /\ calls' = [calls EXCEPT ![c] = NoCall]
        /\ last' = Completed(call, created)
        /\ UNCHANGED <<users, groups, memberships, resources, isGlobal, seen>>

\* accessService.js 287-300: the call starts and awaits ResourceSharing.delete
BeginUnshare(c, resourceId, shareType, targetId) ==
    LET call == [op |-> "unshareResource", resourceId |-> resourceId,
                 shareType |-> shareType, targetId |-> targetId,
                 pc |-> "Resource.update"]
    IN  /\ calls[c] = NoCall
        /\ grants' = DeleteRule(resourceId, shareType, targetId)
        /\ IF shareType = "global"
           THEN calls' = [calls EXCEPT ![c] = call] /\ UNCHANGED last
           ELSE last' = Completed(call, [ok |-> TRUE]) /\ UNCHANGED calls
        /\ UNCHANGED <<users, groups, memberships, resources, isGlobal, seen>>

\* accessService.js 296-302: await Resource.update, then return
StepUnshareUpdate(c) ==
    LET call == calls[c]
    IN  /\ call.op = "unshareResource"
        /\ call.pc = "Resource.update"
        /\ resources' = resources \cup {call.resourceId}
        /\ isGlobal' = [isGlobal EXCEPT ![call.resourceId] = FALSE]
        /\ calls' = [calls EXCEPT ![c] = NoCall]
        /\ last' = Completed(call, [ok |-> TRUE])
        /\ UNCHANGED <<users, groups, memberships, grants, seen>>

\* a global share, or the unshare of the global grant, of resourceId is
\* between its first and its last store call
GlobalCallInProgress(resourceId) ==
    \E c \in Callers :
        /\ calls[c].op \in {"shareResource", "unshareResource"}
        /\ calls[c].resourceId = resourceId
        /\ calls[c].shareType = "global"
        /\ calls[c].op = "unshareResource" => calls[c].targetId = GlobalTarget

\* a resolver's reads of one resource: the Resource item (accessService.js
\* 11, 133-135) and its sharing rules (accessService.js 39-41, 119-121),
\* here taken at one instant
Observe(resourceId) ==
    /\ resourceId \in resources
    /\ seen' = [op |-> "read", resourceId |-> resourceId,
                isGlobal |-> isGlobal[resourceId],
                globalGrant |-> HasGrant(resourceId, "global", GlobalTarget),
                inProgress |-> GlobalCallInProgress(resourceId)]
    /\ UNCHANGED <<store, last, calls>>

\* the requests the concurrent callers make, all on resource r1
ConcurrentRequests ==
    {<<"global", GlobalTarget>>, <<"global", "a">>, <<"user", "a">>, <<"group", "g">>}

ConcurrentInput == [sharedBy |-> "a", permissions |-> <<"read">>]

InitConcurrent ==
    /\ users = {"a", "b"}
    /\ groups = {"a"}
    /\ memberships = {<<"b", "a">>}
    /\ resources = {"r1"}
    /\ isGlobal = [r \in ResourceIds |-> FALSE]
    /\ grants = {}
    /\ last = Idle
    /\ calls = [c \in Callers |-> NoCall]
    /\ seen = Idle

NextConcurrent ==
    \/ \E c \in Callers, resourceId \in ResourceIds, request \in ConcurrentRequests :
          BeginShare(c, resourceId, request[1], request[2], ConcurrentInput)
    \/ \E c \in Callers : StepShareTarget(c)
    \/ \E c \in Callers : StepShareUpdate(c)
    \/ \E c \in Callers : StepShareCreate(c)
    \/ \E c \in Callers, request \in {<<"global", GlobalTarget>>, <<"user", "a">>} :
          BeginUnshare(c, "r1", request[1], request[2])
    \/ \E c \in Callers : StepUnshareUpdate(c)
    \/ \E resourceId \in ResourceIds : Observe(resourceId)

SpecConcurrent == InitConcurrent /\ [][NextConcurrent]_vars

\* Share calls on r1 that interleave with the management routes deleting and
\* re-creating the entities the call has checked.
RaceRequests ==
    {<<"user", "a">>, <<"group", "a">>, <<"global", GlobalTarget>>}

NextRace ==
    \/ \E c \in Callers, request \in RaceRequests :
          BeginShare(c, "r1", request[1], request[2], ConcurrentInput)
    \/ \E c \in Callers : StepShareTarget(c)
    \/ \E c \in Callers : StepShareUpdate(c)
    \/ \E c \in Callers : StepShareCreate(c)
    \/ DeleteUser("a")
    \/ CreateUser("a")
    \/ DeleteGroup("a")
    \/ CreateGroup("a")
    \/ DeleteResource("r1")
    \/ CreateResource("r1", FALSE)

SpecRace == InitConcurrent /\ [][NextRace]_vars

\* C2: while a shareResource(r, 'global', ...) or an
\* unshareResource(r, 'global', 'global') call is in progress, no concurrent
\* reader observes a store in which r.isGlobal and the existence of the
\* global grant of r disagree.
C2_NoTornGlobalState ==
    (seen.op = "read" /\ seen.inProgress) => (seen.isGlobal <=> seen.globalGrant)

----------------------------------------------------------------------------
(* Claims about the resolvers, checked under SpecResolve.                  *)

\* the positions of the entries of an access list that are about userId
EntriesOf(result, userId) ==
    {i \in DOMAIN result.users : result.users[i].userId = userId}

ListedUsers(result) == {result.users[i].userId : i \in DOMAIN result.users}

ListedResources(result) ==
    {result.resources[i].resource : i \in DOMAIN result.resources}

ResolvedResource ==
    /\ last.op = "getResourceAccessList"
    /\ last.resourceId \in resources

\* the users a user-type grant on resourceId targets, and the users that are
\* members of a group a group-type grant on resourceId targets
DirectUsers(resourceId) ==
    {u \in users : HasGrant(resourceId, "user", u)}

GroupUsers(resourceId) ==
    {u \in users : \E rule \in grants :
        /\ rule.resourceId = resourceId
        /\ rule.shareType = "group"
        /\ <<u, rule.targetId>> \in memberships}

\* C3: for every existing resource whose isGlobal is true,
\* getResourceAccessList returns accessType 'global', totalUsers equal to the
\* number of stored users, and exactly one entry, of accessType 'global', per
\* user, whatever grants are stored for the resource.
C3_GlobalOverride ==
    (ResolvedResource /\ isGlobal[last.resourceId])
        => /\ last.result.ok
           /\ last.result.accessType = "global"
           /\ last.result.totalUsers = Cardinality(users)
           /\ Len(last.result.users) = Cardinality(users)
           /\ \A u \in users :
                /\ Cardinality(EntriesOf(last.result, u)) = 1
                /\ \A i \in EntriesOf(last.result, u) :
                      last.result.users[i].accessType = "global"

\* a global resource with two users, resolved while it also holds a
\* user-type and a group-type grant
C3_Witness ==
    /\ ResolvedResource
    /\ isGlobal[last.resourceId]
    /\ Cardinality(users) = Cardinality(UserIds)
    /\ DirectUsers(last.resourceId) # {}
    /\ GroupUsers(last.resourceId) # {}

\* C4: for a non-global resource, a user who holds a user-type grant and is
\* a member of a group that holds a group-type grant appears exactly once in
\* the entries of getResourceAccessList, with accessType 'direct'.
C4_DirectAndGroupOnce ==
    (ResolvedResource /\ ~isGlobal[last.resourceId])
        => \A u \in DirectUsers(last.resourceId) \cap GroupUsers(last.resourceId) :
              /\ Cardinality(EntriesOf(last.result, u)) = 1
              /\ \A i \in EntriesOf(last.result, u) :
                    last.result.users[i].accessType = "direct"

\* C5: for a non-global resource, totalUsers is the size of the union of the
\* existing users targeted by its user-type grants and the existing users
\* that are members of the groups targeted by its group-type grants.
C5_TotalIsUnion ==
    (ResolvedResource /\ ~isGlobal[last.resourceId])
        => /\ last.result.ok
           /\ last.result.totalUsers =
                Cardinality(DirectUsers(last.resourceId) \cup GroupUsers(last.resourceId))

\* a non-global resource resolved while a user is granted directly and
\* through a group: the per-grant counts add up to more than the union
C5_Witness ==
    /\ ResolvedResource
    /\ ~isGlobal[last.resourceId]
    /\ DirectUsers(last.resourceId) \cap GroupUsers(last.resourceId) # {}
    /\ last.result.totalUsers = Cardinality(UserIds)
    /\ last.result.totalUsers
          < Cardinality(DirectUsers(last.resourceId))
              + Cardinality(GroupUsers(last.resourceId))

\* C6: for every existing resource R and existing user U, U is a userId in
\* getResourceAccessList(R).users iff R is a resource in
\* getUserResources(U).resources.
C6_Symmetry ==
    \A R \in resources, U \in users :
        U \in ListedUsers(getResourceAccessList(R))
            <=> R \in ListedResources(getUserResources(U))

----------------------------------------------------------------------------
(* Claims about the grant mutator, checked under Spec.                     *)

GlobalFlagMatchesGrant(resourceId) ==
    isGlobal[resourceId] <=> HasGrant(resourceId, "global", GlobalTarget)

\* C1: from a store where isGlobal agrees with the global grant of every
\* resource, every sequence of completed shareResource and unshareResource
\* calls leaves isGlobal = true iff the grant (resourceId, 'global',
\* 'global') exists, for every resource.
C1_FlagIffGlobalGrant ==
    \A resourceId \in resources : GlobalFlagMatchesGrant(resourceId)

\* C7 as stated: shareResource(r, 'user', u, by) followed by
\* unshareResource(r, 'user', u), for an existing r and an existing u, leaves
\* getResourceAccessList(r) as it was before the shareResource call.
RoundTripDone ==
    /\ last.op = "unshareResource"
    /\ last.after.shared
    /\ last.shareType = "user"
    /\ last.resourceId \in resources
    /\ last.targetId \in users

C7_RoundTripRestores ==
    RoundTripDone => getResourceAccessList(last.resourceId) = last.after.before

\* C7 as amended: the round trip restores getResourceAccessList(r) (same
\* totalUsers, same entries) whenever no grant (r, 'user', u) existed before
\* the shareResource call.
C7_RoundTripRestoresNewGrant ==
    (RoundTripDone /\ ~last.after.existed)
        => getResourceAccessList(last.resourceId) = last.after.before

\* a round trip whose share created the grant, on a resource that already
\* listed a user
C7_Witness ==
    /\ RoundTripDone
    /\ ~last.after.existed
    /\ last.after.result.ok
    /\ last.result.ok
    /\ last.after.before.ok
    /\ last.after.before.totalUsers > 0

\* C8 as stated: shareResource with a key for which a grant already exists
\* returns no error.
C8_ReshareSucceeds ==
    (last.op = "shareResource" /\ last.existed) => last.result.ok

\* C8 as amended: shareResource with a key for which a grant already exists
\* returns an error, and every stored grant keeps its permissions and
\* sharedBy; the number of grants is unchanged.
C8_ReshareFailsGrantsKept ==
    [][(last'.op = "shareResource" /\ last'.existed)
          => (~last'.result.ok /\ grants' = grants)]_vars

\* a re-share of an existing key with another sharedBy, rejected by the
\* conditional put
C8_Witness ==
    /\ last.op = "shareResource"
    /\ last.existed
    /\ ~last.result.ok
    /\ last.result.error = "Sharing rule already exists"
    /\ \E rule \in grants :
          /\ GrantKey(rule) = <<last.resourceId, last.shareType,
                                ShareTarget(last.shareType, last.targetId)>>
          /\ rule.sharedBy # last.sharedBy

\* C9: whenever shareResource returns an error, the store is exactly as it
\* was before the call.
C9_ErrorLeavesStore ==
    [][(last'.op = "shareResource" /\ ~last'.result.ok) => store' = store]_vars

\* C10: shareResource fails with a not-found error when the resource does
\* not exist and, for shareType 'user' / 'group', when the target user /
\* group does not exist; in each of these cases no ShareGrant is written.
C10_MissingIsNotFound ==
    [][(/\ last'.op = "shareResource"
        /\ \/ last'.resourceId \notin resources
           \/ last'.shareType = "user" /\ last'.targetId \notin users
           \/ last'.shareType = "group" /\ last'.targetId \notin groups)
          => (IsNotFound(last'.result) /\ grants' = grants)]_vars

\* a share with a deleted user, on an existing resource that holds a grant
C10_Witness ==
    /\ last.op = "shareResource"
    /\ last.shareType = "user"
    /\ last.resourceId \in resources
    /\ last.targetId \notin users
    /\ ~last.result.ok
    /\ last.result.error = "Target user not found"
    /\ grants # {}

\* C11: unshareResource(r, shareType, t) called when no grant with key
\* (r, shareType, t) exists returns without error and leaves the whole store
\* unchanged, for every shareType including 'global'.
C11_UnshareAbsentIsNoop ==
    [][(/\ last'.op = "unshareResource"
        /\ ~HasGrant(last'.resourceId, last'.shareType, last'.targetId))
          => (last'.result.ok /\ store' = store)]_vars

\* C12: after unshareResource(r, 'global', t) returns successfully, for any
\* caller-supplied t, r has isGlobal = false and no grant of shareType
\* 'global' exists for r.
C12_GlobalUnshareClears ==
    (last.op = "unshareResource" /\ last.shareType = "global" /\ last.result.ok)
        => /\ ~isGlobal[last.resourceId]
           /\ \A rule \in grants :
                ~(rule.resourceId = last.resourceId /\ rule.shareType = "global")

\* C13: after shareResource(r, 'global', t, by) returns successfully on an
\* existing resource r, for any caller-supplied t, r has isGlobal = true and
\* the grant (r, 'global', 'global') exists.
C13_GlobalShareSets ==
    (last.op = "shareResource" /\ last.shareType = "global" /\ last.result.ok)
        => /\ last.resourceId \in resources
           /\ isGlobal[last.resourceId]
           /\ HasGrant(last.resourceId, "global", GlobalTarget)

\* a successful global share whose caller passed a target id other than
\* 'global'
C13_Witness ==
    /\ last.op = "shareResource"
    /\ last.shareType = "global"
    /\ last.targetId # GlobalTarget
    /\ last.result.ok
    /\ last.resourceId \in resources

----------------------------------------------------------------------------
(* Claims about the resolvers over stores with deleted entities.           *)

\* a grant whose target user or target group is not stored
DanglingGrant(rule) ==
    \/ rule.shareType = "user" /\ rule.targetId \notin users
    \/ rule.shareType = "group" /\ rule.targetId \notin groups

\* C14: getResourceAccessList fails with a not-found error exactly when no
\* resource with that id exists, and getUserResources fails with a not-found
\* error exactly when no user with that id exists; when the primary entity
\* exists each returns a result and no error, also when stored grants or
\* memberships reference deleted users, groups or resources.
C14_NotFoundExactly ==
    /\ last.op = "getResourceAccessList"
          => /\ IsNotFound(last.result) <=> last.resourceId \notin resources
             /\ last.resourceId \in resources => last.result.ok
    /\ last.op = "getUserResources"
          => /\ IsNotFound(last.result) <=> last.userId \notin users
             /\ last.userId \in users => last.result.ok

\* an existing user resolved while a membership of theirs names a deleted
\* group and a grant that targets them names a deleted resource, and some
\* grant targets a deleted user
C14_Witness ==
    /\ last.op = "getUserResources"
    /\ last.userId \in users
    /\ last.result.ok
    /\ \E m \in memberships : m[1] = last.userId /\ m[2] \notin groups
    /\ \E rule \in grants :
          /\ rule.shareType = "user"
          /\ rule.targetId = last.userId
          /\ rule.resourceId \notin resources
    /\ \E rule \in grants : DanglingGrant(rule)

\* C15: a grant whose target no longer exists is skipped by both resolvers:
\* a user-type grant whose target user was deleted, and a group-type grant
\* whose target group was deleted (even if memberships of that group
\* remain), contribute no entry to getResourceAccessList of the resource and
\* no entry to getUserResources of any user, and cause no error.
C15_DanglingSkipped ==
    \A rule \in grants : DanglingGrant(rule) =>
        /\ \A R \in resources :
              LET result == getResourceAccessList(R)
              IN  /\ result.ok
                  /\ R = rule.resourceId =>
                        \A i \in DOMAIN result.users :
                            /\ ~(/\ rule.shareType = "user"
                                 /\ result.users[i].accessType = "direct"
                                 /\ result.users[i].userId = rule.targetId)
                            /\ ~(/\ rule.shareType = "group"
                                 /\ result.users[i].accessType = "group"
                                 /\ result.users[i].groupId = rule.targetId)
        /\ \A U \in users :
              LET result == getUserResources(U)
              IN  /\ result.ok
                  /\ \A i \in DOMAIN result.resources :
                        ~(/\ rule.shareType = "group"
                          /\ result.resources[i].resource = rule.resourceId
                          /\ result.resources[i].accessType = "group"
                          /\ result.resources[i].groupId = rule.targetId)

\* C19: after shareResource(r, 'user', u, by) returned successfully, and as
\* long as r and u exist and the grant has not been removed, every
\* getResourceAccessList(r) contains an entry for u and every
\* getUserResources(u) contains r.
C19_GrantStaysVisible ==
    \A r \in resources, u \in users :
        HasGrant(r, "user", u)
            => /\ u \in ListedUsers(getResourceAccessList(r))
               /\ r \in ListedResources(getUserResources(u))

\* the resource resolved while it holds a user-type grant, its isGlobal is
\* set as well, and the grant's target is also a member of a granted group
C19_Witness ==
    /\ ResolvedResource
    /\ isGlobal[last.resourceId]
    /\ \E u \in users :
          /\ HasGrant(last.resourceId, "user", u)
          /\ u \in GroupUsers(last.resourceId)
          /\ u \in ListedUsers(last.result)

----------------------------------------------------------------------------
(* Claims about the result of getUserResources and of a group grant.       *)

ResolvedUser ==
    /\ last.op = "getUserResources"
    /\ last.userId \in users

\* a group-type grant on resourceId targets a group userId is a member of
GroupGranted(resourceId, userId) ==
    \E m \in memberships : m[1] = userId /\ HasGrant(resourceId, "group", m[2])

\* the accessType the priority order direct, group, global gives
PriorityAccessType(resourceId, userId) ==
    IF HasGrant(resourceId, "user", userId) THEN "direct"
    ELSE IF GroupGranted(resourceId, userId) THEN "group"
    ELSE "global"

\* C16: for every existing user u, each resource in
\* getUserResources(u).resources appears exactly once, and its accessType is
\* 'direct' if a user-type grant targets u on it, otherwise 'group' if a
\* group-type grant targets one of u's groups on it, otherwise 'global' (the
\* resource has isGlobal = true).
C16_PriorityAccessType ==
    ResolvedUser =>
        \A i \in DOMAIN last.result.resources :
            LET entry == last.result.resources[i]
            IN  /\ \A j \in DOMAIN last.result.resources :
                      last.result.resources[j].resource = entry.resource => j = i
                /\ entry.accessType = PriorityAccessType(entry.resource, last.userId)
                /\ entry.accessType = "global" => isGlobal[entry.resource]

\* C17: for every existing user u, totalResources of getUserResources(u) is
\* the number of distinct existing resources that have a user-type grant
\* targeting u, or a group-type grant targeting a group u is a member of, or
\* isGlobal = true; and it equals the length of the returned list.
C17_TotalResources ==
    ResolvedUser =>
        /\ last.result.totalResources =
              Cardinality({r \in resources :
                  \/ HasGrant(r, "user", last.userId)
                  \/ GroupGranted(r, last.userId)
                  \/ isGlobal[r]})
        /\ last.result.totalResources = Len(last.result.resources)

\* the grants stored for resourceId
GrantsOf(resourceId) == {rule \in grants : rule.resourceId = resourceId}

\* the existing users that are members of groupId
MembersOf(groupId) == {u \in users : <<u, groupId>> \in memberships}

\* C18: for a non-global resource whose only grant is a group-type grant to
\* group g, getResourceAccessList returns accessType 'specific', totalUsers
\* equal to the number of existing users that are members of g, and exactly
\* one entry per such member, each with accessType 'group' and groupId g.
C18_GroupGrantOnly ==
    (ResolvedResource /\ ~isGlobal[last.resourceId]) =>
        \A rule \in GrantsOf(last.resourceId) :
            (GrantsOf(last.resourceId) = {rule} /\ rule.shareType = "group")
                => /\ last.result.ok
                   /\ last.result.accessType = "specific"
                   /\ last.result.totalUsers = Cardinality(MembersOf(rule.targetId))
                   /\ Len(last.result.users) = Cardinality(MembersOf(rule.targetId))
                   /\ \A u \in MembersOf(rule.targetId) :
                        /\ Cardinality(EntriesOf(last.result, u)) = 1
                        /\ \A i \in EntriesOf(last.result, u) :
                              /\ last.result.users[i].accessType = "group"
                              /\ last.result.users[i].groupId = rule.targetId

\* a non-global resource resolved while its only grant is a group grant to a
\* group with two existing members
C18_Witness ==
    /\ ResolvedResource
    /\ ~isGlobal[last.resourceId]
    /\ \E rule \in GrantsOf(last.resourceId) :
          /\ GrantsOf(last.resourceId) = {rule}
          /\ rule.shareType = "group"
          /\ Cardinality(MembersOf(rule.targetId)) = 2
    /\ last.result.totalUsers = 2

----------------------------------------------------------------------------
(* Claim about the reporting calls, checked under SpecReport.              *)

\* the positions of the rows about a resource / a user
RowsOfResource(result, resourceId) ==
    {i \in DOMAIN result.rows : result.rows[i].resource = resourceId}

RowsOfUser(result, userId) ==
    {i \in DOMAIN result.rows : result.rows[i].user = userId}

\* C20: on a store that does not change during the call,
\* getResourcesWithUserCount returns exactly one row per stored resource with
\* userCount and accessType equal to the totalUsers and accessType of
\* getResourceAccessList for that resource, and getUsersWithResourceCount
\* returns exactly one row per stored user with resourceCount equal to the
\* totalResources of getUserResources for that user.
C20_ReportsMatchResolvers ==
    /\ last.op = "getResourcesWithUserCount"
          => /\ last.result.ok
             /\ Len(last.result.rows) = Cardinality(resources)
             /\ \A r \in resources :
                  /\ Cardinality(RowsOfResource(last.result, r)) = 1
                  /\ \A i \in RowsOfResource(last.result, r) :
                        /\ last.result.rows[i].userCount
                              = getResourceAccessList(r).totalUsers
                        /\ last.result.rows[i].accessType
                              = getResourceAccessList(r).accessType
    /\ last.op = "getUsersWithResourceCount"
          => /\ last.result.ok
             /\ Len(last.result.rows) = Cardinality(users)
             /\ \A u \in users :
                  /\ Cardinality(RowsOfUser(last.result, u)) = 1
                  /\ \A i \in RowsOfUser(last.result, u) :
                        last.result.rows[i].resourceCount
                            = getUserResources(u).totalResources

\* a report over two resources, one global and one with grants, with users
\* stored
C20_Witness ==
    /\ last.op = "getResourcesWithUserCount"
    /\ Cardinality(resources) = 2
    /\ Cardinality(users) = 2
    /\ \E i, j \in DOMAIN last.result.rows :
          /\ last.result.rows[i].accessType = "global"
          /\ last.result.rows[j].accessType = "specific"
          /\ last.result.rows[j].userCount > 0

----------------------------------------------------------------------------
(* Claims about the order and the deduplication of the access list.        *)

\* C21: for every non-global resource, in the list getResourceAccessList
\* returns every entry with accessType 'direct' precedes every entry with
\* accessType 'group', for every order in which the store returns the
\* resource's grants.
C21_DirectBeforeGroup ==
    (ResolvedResource /\ ~isGlobal[last.resourceId])
        => \A i, j \in DOMAIN last.result.users :
              (/\ last.result.users[i].accessType = "direct"
               /\ last.result.users[j].accessType = "group") => i < j

\* C22: in every result of getResourceAccessList the userIds of the entries
\* are pairwise distinct and totalUsers equals the number of entries.
C22_EntriesDistinct ==
    ResolvedResource
        => /\ \A i, j \in DOMAIN last.result.users :
                last.result.users[i].userId = last.result.users[j].userId => i = j
           /\ last.result.totalUsers = Len(last.result.users)

\* the group-type grants on resourceId whose group userId is a member of
GroupGrantsFor(resourceId, userId) ==
    {rule \in GrantsOf(resourceId) :
        rule.shareType = "group" /\ <<userId, rule.targetId>> \in memberships}

\* the first of a set of grants of one resource in processing order
FirstProcessed(rules) ==
    CHOOSE rule \in rules : \A other \in rules :
        PrimarySortKey(rule) <= PrimarySortKey(other)

\* C23: a user without a direct grant who belongs to two or more groups that
\* each hold a group-type grant on the same non-global resource appears
\* exactly once in getResourceAccessList, with the groupId, sharedBy and
\* permissions of the first of those grants in processing order.
C23_FirstGroupWins ==
    (ResolvedResource /\ ~isGlobal[last.resourceId]) =>
        \A u \in users :
            LET rules == GroupGrantsFor(last.resourceId, u)
            IN  (Cardinality(rules) >= 2 /\ ~HasGrant(last.resourceId, "user", u))
                  => /\ Cardinality(EntriesOf(last.result, u)) = 1
                     /\ \A i \in EntriesOf(last.result, u) :
                          /\ last.result.users[i].accessType = "group"
                          /\ last.result.users[i].groupId
                                = FirstProcessed(rules).targetId
                          /\ last.result.users[i].sharedBy
                                = FirstProcessed(rules).sharedBy
                          /\ last.result.users[i].permissions
                                = FirstProcessed(rules).permissions

\* a user in two granted groups, the two grants differing in sharedBy and
\* permissions
C23_Witness ==
    /\ ResolvedResource
    /\ ~isGlobal[last.resourceId]
    /\ \E u \in users :
          /\ ~HasGrant(last.resourceId, "user", u)
          /\ \E x, y \in GroupGrantsFor(last.resourceId, u) :
                x.targetId # y.targetId /\ x.sharedBy # y.sharedBy
          /\ EntriesOf(last.result, u) # {}

----------------------------------------------------------------------------
(* Claim about isGlobal under the resource management routes.              *)

\* C24: after any sequence of operations that includes the resource
\* management operations (create and update of a resource with an isGlobal
\* value), every resource has isGlobal = true iff a global-type grant exists
\* for it.
C24_FlagOnlyFromGrant ==
    \A r \in resources :
        isGlobal[r] <=> \E rule \in GrantsOf(r) : rule.shareType = "global"

----------------------------------------------------------------------------
(* Claims about concurrent callers.                                        *)

\* C25: for any interleaving of concurrent shareResource(r, 'global', ...)
\* and unshareResource(r, 'global', 'global') calls on the same resource,
\* once all of the calls have completed, isGlobal of r is true iff the grant
\* (r, 'global', 'global') exists.
C25_QuiescentFlagMatchesGrant ==
    (\A c \in Callers : calls[c] = NoCall)
        => \A r \in resources :
              isGlobal[r] = HasGrant(r, "global", GlobalTarget)

----------------------------------------------------------------------------
(* Claim about the read calls, checked under SpecRead.                     *)

ReadOps ==
    {"getResourceAccessList", "getUserResources",
     "getResourcesWithUserCount", "getUsersWithResourceCount"}

\* C26: getResourceAccessList, getUserResources, getResourcesWithUserCount
\* and getUsersWithResourceCount never modify the store: after any of them
\* returns, with a result or an error, users, groups, memberships, resources
\* (with isGlobal) and grants are as before the call.
C26_ReadsLeaveStore ==
    [][last'.op \in ReadOps => store' = store]_vars

\* a resolver that returned an error, and a report that returned rows, over
\* a store with grants and memberships
C26_Witness ==
    /\ grants # {}
    /\ memberships # {}
    /\ \E r \in resources : isGlobal[r]
    /\ \/ last.op = "getResourceAccessList" /\ ~last.result.ok
       \/ last.op = "getUsersWithResourceCount" /\ last.result.ok

----------------------------------------------------------------------------
(* Claim about a shareType outside the enum.                               *)

\* C27: shareResource called on an existing resource with a shareType
\* outside {'user', 'group', 'global'} returns a validation error, distinct
\* from not-found, and writes no grant and changes no resource.
C27_InvalidShareTypeRejected ==
    [][(/\ last'.op = "shareResource"
        /\ last'.shareType \notin ShareTypes
        /\ last'.resourceId \in resources)
          => /\ ~last'.result.ok
             /\ ~IsNotFound(last'.result)
             /\ grants' = grants
             /\ resources' = resources
             /\ isGlobal' = isGlobal]_vars

\* C28: every grant written by a successful shareResource call references,
\* at the moment it is written, an existing resource and (for shareType
\* 'user' / 'group') an existing target user / group, also when deletions
\* run between the call's existence checks and its grant write.
C28_WrittenGrantReferencesExist ==
    [][\A rule \in grants' \ grants :
          /\ rule.resourceId \in resources
          /\ rule.shareType = "user" => rule.targetId \in users
          /\ rule.shareType = "group" => rule.targetId \in groups]_vars

----------------------------------------------------------------------------
(* Claims about the accessType of a pair and about global grants.          *)

\* C29: for every existing user U and existing resource R such that U
\* appears in getResourceAccessList(R) and R appears in getUserResources(U),
\* both resolvers report the same accessType for the pair, also when R is
\* global and U holds a direct or group grant on R.
C29_SameAccessType ==
    \A R \in resources, U \in users :
        LET forward == getResourceAccessList(R)
            reverse == getUserResources(U)
        IN  \A i \in DOMAIN forward.users, j \in DOMAIN reverse.resources :
                (forward.users[i].userId = U /\ reverse.resources[j].resource = R)
                    => forward.users[i].accessType = reverse.resources[j].accessType

\* C30: every stored grant with shareType 'global' has targetId 'global',
\* and each resource has at most one global-type grant.
C30_GlobalGrantSentinel ==
    /\ \A rule \in grants : rule.shareType = "global" => rule.targetId = GlobalTarget
    /\ \A x, y \in grants :
          (x.shareType = "global" /\ y.shareType = "global"
              /\ x.resourceId = y.resourceId) => x = y

\* a global share with a target id other than 'global', made while the
\* resource already holds its global grant
C30_Witness ==
    /\ last.op = "shareResource"
    /\ last.shareType = "global"
    /\ last.targetId # GlobalTarget
    /\ last.existed
    /\ HasGrant(last.resourceId, "global", GlobalTarget)
    /\ Cardinality(grants) = MaxGrants

====
